---- MODULE Spec2Model ----
(***************************************************************************)
(* The autocomplete trie of src/trie.py as a state machine.                *)
(*                                                                         *)
(* A node is identified by the character path that leads to it from the    *)
(* root (the tree has no aliasing: every node is created by insert under   *)
(* exactly one parent key).  Characters are small integers ordered as the  *)
(* characters they stand for (1 = "a", 2 = "b"); a word is a sequence of   *)
(* characters; a score is an integer standing for the float of that value. *)
(*                                                                         *)
(* The calls draw their words from Words: the words over {a, b} of at most *)
(* MaxLen characters in which b is only ever the last character, that is   *)
(* the chain "", a, aa, ... with a b-sibling at every level.  The family   *)
(* is closed under prefixes and holds words that are prefixes of one       *)
(* another, siblings, words sharing a proper prefix, and paths that are    *)
(* missing from the tree.                                                  *)
(*                                                                         *)
(* The command loop of src/app.py with the CSV codec of src/io_utils.py is *)
(* the second specification, SpecApp: one step per input line, the line    *)
(* given as its list of tokens.                                            *)
(***************************************************************************)
EXTENDS Integers, Sequences, FiniteSets, TLC

\* ---------------------------------------------------------------- bounds
MaxLen == 2      \* longest word a call passes
MaxWords == 2    \* most words stored at once
MaxK == 2        \* largest k passed to complete
MaxRows == 2     \* most rows in the CSV file the session starts with

Chars == {1, 2}
Scores == {0, 1}

RECURSIVE SeqsOfLen(_)
SeqsOfLen(n) ==
    IF n = 0 THEN {<<>>}
    ELSE {Append(w, c) : w \in SeqsOfLen(n - 1), c \in Chars}

Words ==
    {w \in UNION {SeqsOfLen(n) : n \in 0..MaxLen} :
        \A i \in 1..(Len(w) - 1) : w[i] = 1}

Range(s) == {s[i] : i \in 1..Len(s)}

\* ------------------------------------------------------------------ state
VARIABLES
    nodes,        \* path |-> _Node, for every node the trie holds
    count_words,  \* Trie._count_words
    count_nodes,  \* Trie._count_nodes
    stored,       \* word |-> score of its latest insert, for the words whose
                  \* latest insert-or-successful-remove was an insert
    ret           \* the last call: its name, arguments and return value, and
                  \* pre: whether its word was in stored when it was made

\* The session of app.py around the trie.
VARIABLES
    line,         \* the tokens of the last input line, command.strip().split()
    out,          \* what the last line printed to standard output
    err,          \* what the last line printed to standard error
    running,      \* main's loop has not met quit
    files         \* the rows of the CSV file at path "f.csv"

trievars == <<nodes, count_words, count_nodes, stored, ret>>
appvars == <<line, out, err, running, files>>
vars == <<nodes, count_words, count_nodes, stored, ret,
          line, out, err, running, files>>

\* _Node.__init__: no children, not a word end, score 0.0.
\* next is the dict's key list, in insertion order.
NewNode == [next |-> <<>>, end |-> FALSE, score |-> 0]

root == <<>>

\* ------------------------------------------------------- string ordering
\* Python's str < str: the first differing character decides, a proper
\* prefix is smaller.
RECURSIVE WordLess(_, _)
WordLess(a, b) ==
    IF b = <<>> THEN FALSE
    ELSE IF a = <<>> THEN TRUE
    ELSE IF Head(a) # Head(b) THEN Head(a) < Head(b)
    ELSE WordLess(Tail(a), Tail(b))

\* str.startswith
StartsWith(w, p) == Len(p) <= Len(w) /\ SubSeq(w, 1, Len(p)) = p

\* ------------------------------------------------------------------ _trace
\* Follows text from the root through the next dicts.  ok = FALSE is the
\* (None, []) return; otherwise at is the node reached.
RECURSIVE TraceFrom(_, _, _)
TraceFrom(t, text, i) ==
    IF i > Len(text) THEN [ok |-> TRUE, at |-> text]
    ELSE IF text[i] \notin Range(t[SubSeq(text, 1, i - 1)].next)
         THEN [ok |-> FALSE, at |-> root]
         ELSE TraceFrom(t, text, i + 1)

_trace(t, text) == TraceFrom(t, text, 1)

\* ----------------------------------------------------------------- mutants
\* Each of the following is one of the operators below with a plausible slip
\* put in; none is part of Next.

\* ------------------------------------------------------------------ insert
\* insert's descent without the node_count increment.
RECURSIVE InsertDescendUncounted(_, _, _, _)
InsertDescendUncounted(t, cnt, word, i) ==
    IF i > Len(word) THEN [t |-> t, cnt |-> cnt]
    ELSE LET par == SubSeq(word, 1, i - 1)
             cur == SubSeq(word, 1, i)
             ch  == word[i]
         IN  IF ch \in Range(t[par].next)
             THEN InsertDescendUncounted(t, cnt, word, i + 1)
             ELSE InsertDescendUncounted(
                    [p \in DOMAIN t \cup {cur} |->
                        IF p = cur THEN NewNode
                        ELSE IF p = par
                             THEN [t[par] EXCEPT !.next = Append(@, ch)]
                             ELSE t[p]],
                    cnt, word, i + 1)

\* The descent of insert: one new node per missing transition, each counted.
RECURSIVE InsertDescend(_, _, _, _)
InsertDescend(t, cnt, word, i) ==
    IF i > Len(word) THEN [t |-> t, cnt |-> cnt]
    ELSE LET par == SubSeq(word, 1, i - 1)
             cur == SubSeq(word, 1, i)
             ch  == word[i]
         IN  IF ch \in Range(t[par].next)
             THEN InsertDescend(t, cnt, word, i + 1)
             ELSE InsertDescend(
                    [p \in DOMAIN t \cup {cur} |->
                        IF p = cur THEN NewNode
                        ELSE IF p = par
                             THEN [t[par] EXCEPT !.next = Append(@, ch)]
                             ELSE t[p]],
                    cnt + 1, word, i + 1)

\* insert that counts a word on every call, stored already or not.
InsertAlwaysCounts(word, freq) ==
    /\ (word \in DOMAIN stored \/ Cardinality(DOMAIN stored) < MaxWords)
    /\ LET d == InsertDescend(nodes, count_nodes, word, 1)
       IN  /\ nodes' = [d.t EXCEPT ![word].end = TRUE, ![word].score = freq]
           /\ count_nodes' = d.cnt
           /\ count_words' = count_words + 1
    /\ stored' = [w \in DOMAIN stored \cup {word} |->
                    IF w = word THEN freq ELSE stored[w]]
    /\ ret' = [op |-> "insert", word |-> word, arg |-> freq, result |-> <<>>,
               pre |-> word \in DOMAIN stored]

Insert(word, freq) ==
    /\ (word \in DOMAIN stored \/ Cardinality(DOMAIN stored) < MaxWords)
    /\ LET d == InsertDescend(nodes, count_nodes, word, 1)
       IN  /\ nodes' = [d.t EXCEPT ![word].end = TRUE, ![word].score = freq]
           /\ count_nodes' = d.cnt
           /\ count_words' = IF d.t[word].end THEN count_words
                             ELSE count_words + 1
    /\ stored' = [w \in DOMAIN stored \cup {word} |->
                    IF w = word THEN freq ELSE stored[w]]
    /\ ret' = [op |-> "insert", word |-> word, arg |-> freq, result |-> <<>>,
               pre |-> word \in DOMAIN stored]

\* ------------------------------------------------------------------ remove
\* del d[ch] on the key list of a dict: the other keys keep their order.
RECURSIVE DelKey(_, _)
DelKey(keys, ch) ==
    IF keys = <<>> THEN <<>>
    ELSE IF Head(keys) = ch THEN Tail(keys)
    ELSE <<Head(keys)>> \o DelKey(Tail(keys), ch)

\* Pruning that drops the deepest node only.
PruneOneLevel(t, cnt, word, i) ==
    IF i < 1 THEN [t |-> t, cnt |-> cnt]
    ELSE LET par == SubSeq(word, 1, i - 1)
             cur == SubSeq(word, 1, i)
             ch  == word[i]
         IN  IF t[cur].next # <<>> \/ t[cur].end
             THEN [t |-> t, cnt |-> cnt]
             ELSE [t |-> [p \in DOMAIN t \ {cur} |->
                            IF p = par
                            THEN [t[par] EXCEPT !.next = DelKey(@, ch)]
                            ELSE t[p]],
                   cnt |-> cnt - 1]

\* Pruning whose loop stops one short of the root's children
\* (range(len(path) - 1, 1, -1)).
RECURSIVE PruneSkipTop(_, _, _, _)
PruneSkipTop(t, cnt, word, i) ==
    IF i < 2 THEN [t |-> t, cnt |-> cnt]
    ELSE LET par == SubSeq(word, 1, i - 1)
             cur == SubSeq(word, 1, i)
             ch  == word[i]
         IN  IF t[cur].next # <<>> \/ t[cur].end
             THEN [t |-> t, cnt |-> cnt]
             ELSE PruneSkipTop(
                    [p \in DOMAIN t \ {cur} |->
                        IF p = par
                        THEN [t[par] EXCEPT !.next = DelKey(@, ch)]
                        ELSE t[p]],
                    cnt - 1, word, i - 1)

\* Pruning that stops at a node with children but not at a word end.
RECURSIVE PruneIgnoreEnd(_, _, _, _)
PruneIgnoreEnd(t, cnt, word, i) ==
    IF i < 1 THEN [t |-> t, cnt |-> cnt]
    ELSE LET par == SubSeq(word, 1, i - 1)
             cur == SubSeq(word, 1, i)
             ch  == word[i]
         IN  IF t[cur].next # <<>>
             THEN [t |-> t, cnt |-> cnt]
             ELSE PruneIgnoreEnd(
                    [p \in DOMAIN t \ {cur} |->
                        IF p = par
                        THEN [t[par] EXCEPT !.next = DelKey(@, ch)]
                        ELSE t[p]],
                    cnt - 1, word, i - 1)

\* Pruning whose loop runs on to the root (range(len(path) - 1, -1, -1)) and
\* counts a childless, unmarked root as dropped.
RECURSIVE PruneCountsRoot(_, _, _, _)
PruneCountsRoot(t, cnt, word, i) ==
    IF i < 1
    THEN [t |-> t,
          cnt |-> IF t[root].next = <<>> /\ ~t[root].end THEN cnt - 1
                  ELSE cnt]
    ELSE LET par == SubSeq(word, 1, i - 1)
             cur == SubSeq(word, 1, i)
             ch  == word[i]
         IN  IF t[cur].next # <<>> \/ t[cur].end
             THEN [t |-> t, cnt |-> cnt]
             ELSE PruneCountsRoot(
                    [p \in DOMAIN t \ {cur} |->
                        IF p = par
                        THEN [t[par] EXCEPT !.next = DelKey(@, ch)]
                        ELSE t[p]],
                    cnt - 1, word, i - 1)

\* The pruning loop of remove, for i = len(path) - 1 down to 1: path[i] is the
\* node of word[:i].  A node dropped from its parent's dict is unreferenced
\* and leaves the node map.
RECURSIVE Prune(_, _, _, _)
Prune(t, cnt, word, i) ==
    IF i < 1 THEN [t |-> t, cnt |-> cnt]
    ELSE LET par == SubSeq(word, 1, i - 1)
             cur == SubSeq(word, 1, i)
             ch  == word[i]
         IN  IF t[cur].next # <<>> \/ t[cur].end
             THEN [t |-> t, cnt |-> cnt]
             ELSE IF ch \in Range(t[par].next)
                  THEN Prune(
                         [p \in DOMAIN t \ {cur} |->
                             IF p = par
                             THEN [t[par] EXCEPT !.next = DelKey(@, ch)]
                             ELSE t[p]],
                         cnt - 1, word, i - 1)
                  ELSE [t |-> t, cnt |-> cnt]

\* remove that tests the path alone, not the end flag of its last node.
RemoveUnchecked(word) ==
    LET tr == _trace(nodes, word)
    IN  IF ~tr.ok
        THEN /\ ret' = [op |-> "remove", word |-> word, arg |-> 0,
                        result |-> FALSE, pre |-> word \in DOMAIN stored]
             /\ UNCHANGED <<nodes, count_words, count_nodes, stored>>
        ELSE LET cleared == [nodes EXCEPT ![word].end = FALSE,
                                          ![word].score = 0]
                 pr == Prune(cleared, count_nodes, word, Len(word))
             IN  /\ nodes' = pr.t
                 /\ count_nodes' = pr.cnt
                 /\ count_words' = count_words - 1
                 /\ stored' = [w \in DOMAIN stored \ {word} |-> stored[w]]
                 /\ ret' = [op |-> "remove", word |-> word, arg |-> 0,
                            result |-> TRUE, pre |-> word \in DOMAIN stored]

Remove(word) ==
    LET tr == _trace(nodes, word)
    IN  IF ~tr.ok \/ ~nodes[tr.at].end
        THEN /\ ret' = [op |-> "remove", word |-> word, arg |-> 0,
                        result |-> FALSE, pre |-> word \in DOMAIN stored]
             /\ UNCHANGED <<nodes, count_words, count_nodes, stored>>
        ELSE LET cleared == [nodes EXCEPT ![word].end = FALSE,
                                          ![word].score = 0]
                 pr == Prune(cleared, count_nodes, word, Len(word))
             IN  /\ nodes' = pr.t
                 /\ count_nodes' = pr.cnt
                 /\ count_words' = count_words - 1
                 /\ stored' = [w \in DOMAIN stored \ {word} |-> stored[w]]
                 /\ ret' = [op |-> "remove", word |-> word, arg |-> 0,
                            result |-> TRUE, pre |-> word \in DOMAIN stored]

\* ---------------------------------------------------------------- contains
\* contains that accepts any existing path.
containsPath(t, word) ==
    LET tr == _trace(t, word) IN tr.ok

contains(t, word) ==
    LET tr == _trace(t, word) IN tr.ok /\ t[tr.at].end

\* contains whose trace creates the nodes it misses (a setdefault walk).
ContainsCreating(word) ==
    /\ ret' = [op |-> "contains", word |-> word, arg |-> 0,
               result |-> contains(nodes, word),
               pre |-> word \in DOMAIN stored]
    /\ nodes' = InsertDescend(nodes, count_nodes, word, 1).t
    /\ UNCHANGED <<count_words, count_nodes, stored>>

Contains(word) ==
    /\ ret' = [op |-> "contains", word |-> word, arg |-> 0,
               result |-> contains(nodes, word),
               pre |-> word \in DOMAIN stored]
    /\ UNCHANGED <<nodes, count_words, count_nodes, stored>>

\* ---------------------------------------------------------------- complete
\* Python's tuple order on (freq, word) pairs.
PairLess(p, q) == p[1] < q[1] \/ (p[1] = q[1] /\ WordLess(p[2], q[2]))

\* heap[0] of a heapq list: its least pair.  The heap is kept as the set of
\* its pairs (every pair carries a different word).
HeapMin(heap) == CHOOSE m \in heap : \A q \in heap \ {m} : PairLess(m, q)

\* heapq.heappushpop(heap, item): item goes in and the least pair comes out;
\* the heap is unchanged when item is not above heap[0] or the heap is empty.
heappushpop(heap, item) ==
    IF heap # {} /\ PairLess(HeapMin(heap), item)
    THEN (heap \ {HeapMin(heap)}) \cup {item}
    ELSE heap

\* The push test off by one: len(heap) <= k.
OfferOneMore(heap, pair, k) ==
    IF Cardinality(heap) <= k THEN heap \cup {pair}
    ELSE heappushpop(heap, pair)

\* The body of dfs for a word end: push while the heap holds fewer than k
\* pairs, pushpop otherwise.
Offer(heap, pair, k) ==
    IF Cardinality(heap) < k THEN heap \cup {pair}
    ELSE heappushpop(heap, pair)

\* sorted(n.next.keys())
RECURSIVE SortedKeys(_)
SortedKeys(ks) ==
    IF ks = {} THEN <<>>
    ELSE LET m == CHOOSE c \in ks : \A d \in ks : c <= d
         IN  <<m>> \o SortedKeys(ks \ {m})

\* dfs(n, word) with the heap threaded through: the node itself, then its
\* children in ascending character order.
RECURSIVE dfs(_, _, _, _), dfsChildren(_, _, _, _, _)
dfs(t, k, word, heap) ==
    LET h == IF t[word].end THEN Offer(heap, <<t[word].score, word>>, k)
             ELSE heap
    IN  dfsChildren(t, k, word, SortedKeys(Range(t[word].next)), h)

dfsChildren(t, k, word, keys, heap) ==
    IF keys = <<>> THEN heap
    ELSE dfsChildren(t, k, word, Tail(keys),
                     dfs(t, k, Append(word, Head(keys)), heap))

\* The final sort without the minus: key (freq, word).
RankBeforeAscending(p, q) ==
    p[1] < q[1] \/ (p[1] = q[1] /\ WordLess(p[2], q[2]))

\* The sort key (-freq, word) of the final sorted().
RankBefore(p, q) == p[1] > q[1] \/ (p[1] = q[1] /\ WordLess(p[2], q[2]))

\* sorted(heap, key=lambda x: (-x[0], x[1])), then the words alone.
RECURSIVE SortedWords(_)
SortedWords(pairs) ==
    IF pairs = {} THEN <<>>
    ELSE LET b == CHOOSE p \in pairs : \A q \in pairs \ {p} : RankBefore(p, q)
         IN  <<b[2]>> \o SortedWords(pairs \ {b})

complete(t, prefix, k) ==
    LET tr == _trace(t, prefix)
    IN  IF ~tr.ok THEN <<>>
        ELSE SortedWords(dfs(t, k, prefix, {}))

Complete(prefix, k) ==
    /\ ret' = [op |-> "complete", word |-> prefix, arg |-> k,
               result |-> complete(nodes, prefix, k),
               pre |-> prefix \in DOMAIN stored]
    /\ UNCHANGED <<nodes, count_words, count_nodes, stored>>

\* ------------------------------------------------------------------- stats
\* min in place of max.
SetMin(S) == CHOOSE m \in S : \A x \in S : m <= x

SetMax(S) == CHOOSE m \in S : \A x \in S : x <= m

\* depth that gives a childless node 1.
RECURSIVE depthCountsNodes(_, _)
depthCountsNodes(t, n) ==
    IF t[n].next = <<>> THEN 1
    ELSE 1 + SetMax({depthCountsNodes(t, Append(n, c)) :
                        c \in Range(t[n].next)})

RECURSIVE depth(_, _)
depth(t, n) ==
    IF t[n].next = <<>> THEN 0
    ELSE 1 + SetMax({depth(t, Append(n, c)) : c \in Range(t[n].next)})

stats(t, cw, cn) == <<cw, depth(t, root), cn>>

Stats ==
    /\ ret' = [op |-> "stats", word |-> <<>>, arg |-> 0,
               result |-> stats(nodes, count_words, count_nodes),
               pre |-> root \in DOMAIN stored]
    /\ UNCHANGED <<nodes, count_words, count_nodes, stored>>

\* ------------------------------------------------------------------- items
\* gather(n, text): the node's own pair, then its children in dict order.
RECURSIVE gather(_, _), gatherChildren(_, _, _)
gather(t, text) ==
    (IF t[text].end THEN <<<<text, t[text].score>>>> ELSE <<>>)
        \o gatherChildren(t, text, t[text].next)

gatherChildren(t, text, keys) ==
    IF keys = <<>> THEN <<>>
    ELSE gather(t, Append(text, Head(keys)))
            \o gatherChildren(t, text, Tail(keys))

\* items that starts at the root's children and so misses the root's own pair.
itemsSkipRoot(t) == gatherChildren(t, root, t[root].next)

items(t) == gather(t, root)

Items ==
    /\ ret' = [op |-> "items", word |-> <<>>, arg |-> 0,
               result |-> items(nodes), pre |-> root \in DOMAIN stored]
    /\ UNCHANGED <<nodes, count_words, count_nodes, stored>>

\* ============================================================== io_utils
\* Raw text is a sequence of characters as well: 0 is a blank, 1 and 2 are
\* "a" and "b", 11 and 12 are "A" and "B".

\* str.lower, character by character.
LowerChar(c) == IF c \in {11, 12} THEN c - 10 ELSE c

lower(text) == [i \in 1..Len(text) |-> LowerChar(text[i])]

\* str.strip: the blanks at both ends go.
RECURSIVE lstrip(_), rstrip(_)
lstrip(text) ==
    IF text # <<>> /\ Head(text) = 0 THEN lstrip(Tail(text)) ELSE text

rstrip(text) ==
    IF text # <<>> /\ text[Len(text)] = 0
    THEN rstrip(SubSeq(text, 1, Len(text) - 1))
    ELSE text

strip(text) == rstrip(lstrip(text))

\* float(field): ok = FALSE is ValueError.
ParseFloat(field) ==
    CASE field \in {"0", "0.0"} -> [ok |-> TRUE, val |-> 0]
      [] field \in {"1", "1.0"} -> [ok |-> TRUE, val |-> 1]
      [] OTHER -> [ok |-> FALSE, val |-> 0]

\* int(field): ok = FALSE is ValueError.
ParseInt(field) ==
    CASE field = "0" -> [ok |-> TRUE, val |-> 0]
      [] field = "1" -> [ok |-> TRUE, val |-> 1]
      [] OTHER -> [ok |-> FALSE, val |-> 0]

\* What csv.writer puts down for a float score.
FormatFloat(x) == IF x = 0 THEN "0.0" ELSE "1.0"

\* The characters of a command token.
TokChars(tok) ==
    CASE tok = "a" -> <<1>>
      [] tok = "Ab" -> <<11, 2>>

\* The paths the session names: a readable CSV file, a path in a directory
\* that does not exist, and a directory.
Paths == {"f.csv", "nodir/w.csv", "dir"}

\* What open(path) does: the file opens, or FileNotFoundError, or another
\* OSError (IsADirectoryError).  Writing below a missing directory is
\* FileNotFoundError as well.
OpenResult(path) ==
    CASE path = "f.csv" -> "ok"
      [] path = "nodir/w.csv" -> "FileNotFoundError"
      [] OTHER -> "OSError"

\* One printed line: its text and the value put into it.
Printed(text, data) == [text |-> text, data |-> data]

\* The loop body of load_csv over the rows csv.reader yields: an empty row is
\* skipped; the word is stripped and lowercased; the score is 0.0 when the
\* field is missing or float() rejects it.
RECURSIVE ReadRows(_)
ReadRows(rows) ==
    IF rows = <<>> THEN <<>>
    ELSE LET row == Head(rows)
         IN  IF row = <<>> THEN ReadRows(Tail(rows))
             ELSE LET word  == lower(strip(row[1]))
                      score == IF Len(row) > 1 /\ ParseFloat(row[2]).ok
                               THEN ParseFloat(row[2]).val
                               ELSE 0
                  IN  <<<<word, score>>>> \o ReadRows(Tail(rows))

\* load_csv: the pairs read, and what it printed; both failures print to
\* standard output and return [].
load_csv(path) ==
    CASE OpenResult(path) = "ok" ->
            [pairs |-> ReadRows(files), out |-> <<>>, failed |-> FALSE]
      [] OpenResult(path) = "FileNotFoundError" ->
            [pairs |-> <<>>, failed |-> TRUE,
             out |-> <<Printed("ERROR: could not find file", path)>>]
      [] OTHER ->
            [pairs |-> <<>>, failed |-> TRUE,
             out |-> <<Printed("ERROR: failed to open", path)>>]

\* The rows writer.writerow([w, s]) puts down for the pairs of data.
WriteRows(data) == [i \in 1..Len(data) |-> <<data[i][1], FormatFloat(data[i][2])>>]

\* =================================================================== app
\* Trie(): a fresh trie.
EmptyTrie == [nodes |-> [p \in {root} |-> NewNode], cw |-> 0, cn |-> 1]

\* Trie.insert on a trie value.
trie_insert(T, word, freq) ==
    LET d == InsertDescend(T.nodes, T.cn, word, 1)
    IN  [nodes |-> [d.t EXCEPT ![word].end = TRUE, ![word].score = freq],
         cw |-> IF d.t[word].end THEN T.cw ELSE T.cw + 1,
         cn |-> d.cnt]

\* for w, s in pairs: trie.insert(w.lower(), s)
RECURSIVE InsertAll(_, _)
InsertAll(T, pairs) ==
    IF pairs = <<>> THEN T
    ELSE InsertAll(trie_insert(T, lower(Head(pairs)[1]), Head(pairs)[2]),
                   Tail(pairs))

\* The insert calls of that loop, as stored records them.
RECURSIVE StoredAfter(_, _)
StoredAfter(st, pairs) ==
    IF pairs = <<>> THEN st
    ELSE LET w == lower(Head(pairs)[1])
         IN  StoredAfter([v \in DOMAIN st \cup {w} |->
                             IF v = w THEN Head(pairs)[2] ELSE st[v]],
                         Tail(pairs))

NoCall == [op |-> "none", word |-> root, arg |-> 0, result |-> <<>>,
           pre |-> FALSE]

\* A line that does nothing: no handler runs, or the handler returns at once.
Ignored ==
    /\ out' = <<>>
    /\ err' = <<>>
    /\ ret' = NoCall
    /\ UNCHANGED <<nodes, count_words, count_nodes, stored, files>>

\* handle_load that keeps the session's trie when load_csv fails.
handle_loadKeepOnError(path) ==
    LET lc == load_csv(path)
        T  == InsertAll(EmptyTrie, lc.pairs)
    IN  /\ nodes' = IF lc.failed THEN nodes ELSE T.nodes
        /\ count_words' = IF lc.failed THEN count_words ELSE T.cw
        /\ count_nodes' = IF lc.failed THEN count_nodes ELSE T.cn
        /\ stored' = IF lc.failed THEN stored ELSE StoredAfter(<<>>, lc.pairs)
        /\ ret' = [op |-> "load", word |-> root, arg |-> 0, result |-> <<>>,
                   pre |-> stored # <<>>]
        /\ out' = lc.out
        /\ err' = <<>>
        /\ UNCHANGED files

\* handle_load that inserts into the session's trie instead of a new one.
handle_loadMerging(path) ==
    LET lc == load_csv(path)
        T  == InsertAll([nodes |-> nodes, cw |-> count_words,
                         cn |-> count_nodes], lc.pairs)
    IN  /\ nodes' = T.nodes
        /\ count_words' = T.cw
        /\ count_nodes' = T.cn
        /\ stored' = StoredAfter(stored, lc.pairs)
        /\ ret' = [op |-> "load", word |-> root, arg |-> 0, result |-> <<>>,
                   pre |-> stored # <<>>]
        /\ out' = lc.out
        /\ err' = <<>>
        /\ UNCHANGED files

\* handle_load, and the assignment trie = handle_load(...) of execute: the
\* pairs of load_csv go into a new trie, which becomes the session's.
\* load_csv raises nothing for the paths above, so the except clauses of
\* execute stay unused.  ret.pre records whether the old trie held a word.
handle_load(path) ==
    LET lc == load_csv(path)
        T  == InsertAll(EmptyTrie, lc.pairs)
    IN  /\ nodes' = T.nodes
        /\ count_words' = T.cw
        /\ count_nodes' = T.cn
        /\ stored' = StoredAfter(<<>>, lc.pairs)
        /\ ret' = [op |-> "load", word |-> root, arg |-> 0, result |-> <<>>,
                   pre |-> stored # <<>>]
        /\ out' = lc.out
        /\ err' = <<>>
        /\ UNCHANGED files

\* handle_save with save_csv: the items go to the file, or the failure of
\* open is printed to standard output.
handle_save(path) ==
    /\ IF OpenResult(path) = "ok"
       THEN /\ files' = WriteRows(items(nodes))
            /\ out' = <<>>
       ELSE /\ out' = <<Printed("ERROR: failed to write", path)>>
            /\ UNCHANGED files
    /\ err' = <<>>
    /\ ret' = [op |-> "save", word |-> root, arg |-> 0, result |-> <<>>,
               pre |-> stored # <<>>]
    /\ UNCHANGED <<nodes, count_words, count_nodes, stored>>

\* handle_insert: a freq that float() rejects is passed over.
handle_insert(word, freq) ==
    IF ParseFloat(freq).ok
    THEN /\ Insert(lower(TokChars(word)), ParseFloat(freq).val)
         /\ out' = <<>>
         /\ err' = <<>>
         /\ UNCHANGED files
    ELSE Ignored

handle_remove(word) ==
    /\ Remove(lower(TokChars(word)))
    /\ out' = <<Printed(IF ret'.result THEN "OK" ELSE "MISS", <<>>)>>
    /\ err' = <<>>
    /\ UNCHANGED files

handle_contains(word) ==
    /\ Contains(lower(TokChars(word)))
    /\ out' = <<Printed(IF ret'.result THEN "YES" ELSE "NO", <<>>)>>
    /\ err' = <<>>
    /\ UNCHANGED files

\* handle_complete: a limit that int() rejects prints nothing.
handle_complete(prefix, limit) ==
    IF ParseInt(limit).ok
    THEN /\ Complete(lower(TokChars(prefix)), ParseInt(limit).val)
         /\ out' = <<Printed("completions", ret'.result)>>
         /\ err' = <<>>
         /\ UNCHANGED files
    ELSE Ignored

handle_stats ==
    /\ Stats
    /\ out' = <<Printed("words= height= nodes=", ret'.result)>>
    /\ err' = <<>>
    /\ UNCHANGED files

\* parts[0].lower() on the verbs the session types.
LowerVerb(tok) == IF tok = "STATS" THEN "stats" ELSE tok

\* execute with main's loop around it: one input line, already split.
Execute(parts) ==
    /\ running
    /\ line' = parts
    /\ IF parts = <<>>
       THEN Ignored /\ running' = TRUE
       ELSE LET cmd == LowerVerb(parts[1])
                n   == Len(parts)
            IN  IF cmd = "quit"
                THEN Ignored /\ running' = FALSE
                ELSE /\ running' = TRUE
                     /\ CASE cmd = "load" /\ n = 2 -> handle_load(parts[2])
                          [] cmd = "save" /\ n = 2 -> handle_save(parts[2])
                          [] cmd = "insert" /\ n = 3 ->
                                handle_insert(parts[2], parts[3])
                          [] cmd = "remove" /\ n = 2 -> handle_remove(parts[2])
                          [] cmd = "contains" /\ n = 2 ->
                                handle_contains(parts[2])
                          [] cmd = "complete" /\ n = 3 ->
                                handle_complete(parts[2], parts[3])
                          [] cmd = "stats" /\ n = 1 -> handle_stats
                          [] OTHER -> Ignored

\* ------------------------------------------------------ the session's input
WordToks == {"a", "Ab"}
NumToks == {"0", "1", "a"}

\* Lines with a verb nobody knows, or a known verb with a token too many or
\* too few.
BadLines ==
    {<<"load", "f.csv", "a">>, <<"save", "f.csv", "a">>,
     <<"insert", "a", "1", "a">>, <<"remove", "a", "a">>,
     <<"contains", "a", "a">>, <<"complete", "a", "1", "a">>,
     <<"stats", "a">>, <<"quit", "a">>,
     <<"load">>, <<"save">>, <<"insert", "a">>, <<"remove">>,
     <<"contains">>, <<"complete", "a">>,
     <<"foo">>, <<"foo", "a">>}

\* A CSV row as csv.reader yields it: no field (a blank line), a word, or a
\* word and a score.
FileRows ==
    {<<>>,
     <<<<0, 11, 0>>>>,
     <<<<1>>, "1">>,
     <<<<1, 2>>, "1">>,
     <<<<1, 2>>, "x">>}

RECURSIVE RowSeqs(_)
RowSeqs(n) ==
    IF n = 0 THEN {<<>>}
    ELSE RowSeqs(n - 1)
            \cup {Append(f, r) : f \in RowSeqs(n - 1), r \in FileRows}

\* ----------------------------------------------------------- specification
TrieInit ==
    /\ nodes = [p \in {root} |-> NewNode]
    /\ count_words = 0
    /\ count_nodes = 1
    /\ stored = <<>>
    /\ ret = [op |-> "init", word |-> root, arg |-> 0, result |-> <<>>,
             pre |-> FALSE]

AppInit ==
    /\ line = <<>>
    /\ out = <<>>
    /\ err = <<>>
    /\ running = TRUE

Init ==
    /\ TrieInit
    /\ AppInit
    /\ files = <<>>

Next ==
    \/ \E w \in Words, s \in Scores : Insert(w, s) /\ UNCHANGED appvars
    \/ \E w \in Words : Remove(w) /\ UNCHANGED appvars
    \/ \E w \in Words : Contains(w) /\ UNCHANGED appvars
    \/ \E p \in Words, k \in 0..MaxK : Complete(p, k) /\ UNCHANGED appvars
    \/ Stats /\ UNCHANGED appvars
    \/ Items /\ UNCHANGED appvars

Spec == Init /\ [][Next]_vars

InitApp ==
    /\ TrieInit
    /\ AppInit
    /\ files \in RowSeqs(MaxRows)

NextApp ==
    \/ \E p \in Paths : Execute(<<"load", p>>)
    \/ \E p \in Paths : Execute(<<"save", p>>)
    \/ \E w \in WordToks, s \in NumToks : Execute(<<"insert", w, s>>)
    \/ \E w \in WordToks : Execute(<<"remove", w>>)
    \/ \E w \in WordToks : Execute(<<"contains", w>>)
    \/ \E w \in WordToks, k \in NumToks : Execute(<<"complete", w, k>>)
    \/ \E v \in {"stats", "STATS"} : Execute(<<v>>)
    \/ Execute(<<"quit">>)
    \/ Execute(<<>>)
    \/ \E parts \in BadLines : Execute(parts)

SpecApp == InitApp /\ [][NextApp]_vars

\* ------------------------------------------------- what the tree now holds
\* The paths of the nodes reachable from the root through the next dicts.
RECURSIVE ReachFrom(_, _)
ReachFrom(t, p) ==
    {p} \cup UNION {ReachFrom(t, Append(p, c)) : c \in Range(t[p].next)}

Reach(t) == ReachFrom(t, root)

Terminals(t) == {p \in Reach(t) : t[p].end}

ProperPrefix(v, w) == Len(v) < Len(w) /\ StartsWith(w, v)

\* v and w part ways below a common first character.
Diverge(v, w) ==
    /\ v # <<>> /\ w # <<>> /\ v[1] = w[1]
    /\ ~StartsWith(v, w) /\ ~StartsWith(w, v)

Min2(a, b) == IF a < b THEN a ELSE b

\* The stored words under prefix p.
Matching(p) == {w \in DOMAIN stored : StartsWith(w, p)}

\* w comes before v in the contract's order: score descending, then word
\* ascending.
Outranks(w, v) ==
    stored[w] > stored[v] \/ (stored[w] = stored[v] /\ WordLess(w, v))

\* res lists exactly the words of S, each once.
ListsEach(res, S) ==
    /\ Len(res) = Cardinality(S)
    /\ {res[i] : i \in 1..Len(res)} = S

\* res is in the contract's order.
Ranked(res) ==
    \A i \in 1..Len(res) : \A j \in (i + 1)..Len(res) :
        Outranks(res[i], res[j])

\* ------------------------------------------------------------------ claims

\* C1: complete(p, k) returns exactly the first k elements of the list of all
\* stored words starting with p, sorted by score descending and, on equal
\* scores, by word ascending: it lists min(k, m) of the m matching words in
\* that order, and every matching word it leaves out ranks after all it
\* returns.
C1_CompleteIsTopK ==
    ret.op = "complete" =>
        LET res == ret.result
            got == {res[i] : i \in 1..Len(res)}
        IN  /\ Len(res) = Min2(ret.arg, Cardinality(Matching(ret.word)))
            /\ Cardinality(got) = Len(res)
            /\ got \subseteq Matching(ret.word)
            /\ Ranked(res)
            /\ \A w \in got : \A v \in Matching(ret.word) \ got :
                   Outranks(w, v)

\* C2: no node other than the root is both childless and not a word end.
C2_NoDeadLeaf ==
    \A p \in Reach(nodes) \ {root} : nodes[p].next # <<>> \/ nodes[p].end

C2_Witness ==
    /\ ret.op = "remove" /\ ret.result = TRUE
    /\ Len(ret.word) = 2
    /\ Reach(nodes) = {root, <<2>>}

\* C3: word_count is the number of word-end nodes reachable from the root and
\* node_count the number of nodes reachable from the root, the root included.
C3_CountersMatchTree ==
    /\ count_words = Cardinality(Terminals(nodes))
    /\ count_nodes = Cardinality(Reach(nodes))

C3_Witness ==
    /\ ret.op = "remove" /\ ret.result = TRUE
    /\ count_words = 1 /\ count_nodes = 3

\* C4: contains(w) is true exactly when the latest insert or successful
\* remove of w was an insert; a mere prefix or extension of stored words is
\* not contained.
C4_ContainsIffStored ==
    /\ ret.op = "contains" => (ret.result <=> ret.word \in DOMAIN stored)
    /\ \A w \in Words : contains(nodes, w) <=> w \in DOMAIN stored

C4_Witness ==
    /\ ret.op = "contains" /\ ret.result = FALSE
    /\ \E v \in DOMAIN stored : ProperPrefix(ret.word, v)
    /\ \E v \in DOMAIN stored : ProperPrefix(v, ret.word)

\* C5: remove(w) of a word that is not stored returns false and leaves the
\* tree shape, every flag and score, word_count and node_count unchanged.
C5_RemoveAbsentIsNoOp ==
    [][(ret'.op = "remove" /\ ret'.word \notin DOMAIN stored) =>
            /\ ret'.result = FALSE
            /\ nodes' = nodes
            /\ count_words' = count_words
            /\ count_nodes' = count_nodes]_vars

C5_Witness ==
    /\ ret.op = "remove" /\ ~ret.pre /\ ret.result = FALSE
    /\ \E v \in DOMAIN stored : ProperPrefix(ret.word, v)

\* C6: once every inserted word has been removed again, in any order, the
\* trie is the lone childless root with node_count 1 and word_count 0, and
\* every remove of a stored word returns true.
C6_RoundTrip ==
    /\ (ret.op = "remove" /\ ret.pre) => ret.result = TRUE
    /\ stored = <<>> =>
          /\ Reach(nodes) = {root}
          /\ nodes[root].next = <<>>
          /\ count_nodes = 1
          /\ count_words = 0

C6_Witness ==
    /\ ret.op = "remove" /\ ret.pre /\ ret.result = TRUE
    /\ Len(ret.word) = MaxLen
    /\ stored = <<>> /\ count_nodes = 1

\* C7: a remove(w) that returns true makes contains(w) false, and every other
\* stored word stays contained with its score.
C7_RemoveFrame ==
    [][(ret'.op = "remove" /\ ret'.result = TRUE) =>
            /\ ~contains(nodes', ret'.word)
            /\ \A v \in Words \ {ret'.word} :
                   contains(nodes, v) =>
                       /\ contains(nodes', v)
                       /\ nodes'[v].score = nodes[v].score]_vars

C7_Witness ==
    /\ ret.op = "remove" /\ ret.result = TRUE
    /\ \E v \in DOMAIN stored : ProperPrefix(v, ret.word)

\* C8: insert(w, s) of a stored word w overwrites its score with s and leaves
\* word_count, node_count and the tree shape unchanged; afterwards items()
\* holds the one pair (w, s) for w and complete() lists w once.
C8_ReinsertOverwrites ==
    [][(ret'.op = "insert" /\ ret'.word \in DOMAIN stored) =>
            LET w == ret'.word
                its == items(nodes')
                all == complete(nodes', root, count_words')
            IN  /\ nodes' = [nodes EXCEPT ![w].score = ret'.arg]
                /\ nodes[w].end
                /\ count_words' = count_words
                /\ count_nodes' = count_nodes
                /\ \E i \in 1..Len(its) : its[i] = <<w, ret'.arg>>
                /\ Cardinality({i \in 1..Len(its) : its[i][1] = w}) = 1
                /\ Cardinality({i \in 1..Len(all) : all[i] = w}) = 1]_vars

C8_Witness ==
    /\ ret.op = "insert" /\ ret.pre
    /\ count_words = 2
    /\ \E v \in DOMAIN stored : ProperPrefix(ret.word, v)

\* C9: complete(p, k) returns exactly min(k, m) words, m being the number of
\* stored words starting with p, each a different stored word starting with
\* p; nothing when k = 0 or when no node exists for the path p.
C9_CompleteCount ==
    ret.op = "complete" =>
        LET res == ret.result
            got == {res[i] : i \in 1..Len(res)}
        IN  /\ Len(res) = Min2(ret.arg, Cardinality(Matching(ret.word)))
            /\ Cardinality(got) = Len(res)
            /\ got \subseteq Matching(ret.word)
            /\ ret.arg = 0 => res = <<>>
            /\ ret.word \notin Reach(nodes) => res = <<>>

C9_Witness ==
    /\ ret.op = "complete"
    /\ ret.arg = 1
    /\ Cardinality(Matching(ret.word)) = 2
    /\ Len(ret.result) = 1

\* C10: when k is at least the number of stored words under the prefix,
\* complete returns all of them, each once, by score descending and then
\* word ascending.
C10_CompleteAllRanked ==
    (ret.op = "complete" /\ ret.arg >= Cardinality(Matching(ret.word))) =>
        /\ ListsEach(ret.result, Matching(ret.word))
        /\ Ranked(ret.result)

C10_Witness ==
    /\ ret.op = "complete" /\ ret.word = root
    /\ ret.arg >= count_words
    /\ Len(ret.result) = 2
    /\ stored[ret.result[1]] = stored[ret.result[2]]

\* The length of the longest stored word, 0 when none is stored.
LongestStored ==
    IF DOMAIN stored = {} THEN 0
    ELSE CHOOSE n \in {Len(w) : w \in DOMAIN stored} :
            \A w \in DOMAIN stored : Len(w) <= n

\* The prefixes of the stored words, the empty one included.
StoredPrefixes ==
    {root} \cup UNION {{SubSeq(w, 1, n) : n \in 0..Len(w)} : w \in DOMAIN stored}

\* C11: stats() returns (word_count, height, node_count), height being the
\* number of edges on the longest path from the root to a childless node;
\* (0, 0, 1) for a fresh trie and (2, 2, 3) after insert("a"), insert("ab").
C11_StatsTriple ==
    /\ ret.op = "stats" =>
          /\ ret.result[1] = count_words
          /\ ret.result[3] = count_nodes
          /\ \E p \in Reach(nodes) :
                /\ nodes[p].next = <<>>
                /\ Len(p) = ret.result[2]
          /\ \A p \in Reach(nodes) : Len(p) <= ret.result[2]
    /\ (ret.op = "stats" /\ stored = <<>>) => ret.result = <<0, 0, 1>>
    /\ (ret.op = "stats" /\ DOMAIN stored = {<<1>>, <<1, 2>>}) =>
          ret.result = <<2, 2, 3>>

C11_Witness ==
    /\ ret.op = "stats"
    /\ DOMAIN stored = {<<1>>, <<1, 2>>}
    /\ ret.result = <<2, 2, 3>>

\* C12: items() returns every stored word exactly once, paired with the score
\* of its latest insert, and no pair for a word that is not stored.
C12_ItemsAreStored ==
    ret.op = "items" =>
        LET its == ret.result
        IN  /\ Len(its) = Cardinality(DOMAIN stored)
            /\ {its[i][1] : i \in 1..Len(its)} = DOMAIN stored
            /\ \A i \in 1..Len(its) : its[i][2] = stored[its[i][1]]

C12_Witness ==
    /\ ret.op = "items"
    /\ Len(ret.result) = 2
    /\ root \in DOMAIN stored
    /\ root \in Reach(nodes) /\ <<1>> \in Reach(nodes) /\ <<1>> \notin DOMAIN stored

\* C16: the root is never detached or replaced and node_count stays at least
\* 1; insert("") of a word not stored marks the root (word_count + 1,
\* node_count unchanged); remove("") of the stored empty word returns true,
\* clears the root's flag and prunes nothing.
C16_RootStays ==
    /\ root \in DOMAIN nodes /\ count_nodes >= 1
    /\ [][/\ root \in DOMAIN nodes' /\ count_nodes' >= 1
          /\ (ret'.op = "insert" /\ ret'.word = root
                  /\ root \notin DOMAIN stored) =>
                /\ nodes' = [nodes EXCEPT ![root].end = TRUE,
                                          ![root].score = ret'.arg]
                /\ count_words' = count_words + 1
                /\ count_nodes' = count_nodes
          /\ (ret'.op = "remove" /\ ret'.word = root
                  /\ root \in DOMAIN stored) =>
                /\ ret'.result = TRUE
                /\ nodes' = [nodes EXCEPT ![root].end = FALSE,
                                          ![root].score = 0]
                /\ count_words' = count_words - 1
                /\ count_nodes' = count_nodes]_vars

C16_Witness ==
    /\ ret.op = "remove" /\ ret.word = root /\ ret.pre /\ ret.result = TRUE
    /\ stored = <<>> /\ count_nodes = 1 /\ ~nodes[root].end

\* C17: contains, complete, stats and items leave the tree shape, every flag
\* and score, word_count and node_count as they were, whatever the argument.
C17_QueriesReadOnly ==
    [][ret'.op \in {"contains", "complete", "stats", "items"} =>
            /\ nodes' = nodes
            /\ count_words' = count_words
            /\ count_nodes' = count_nodes]_vars

C17_Witness ==
    /\ ret.op = "contains" /\ ~ret.result
    /\ ret.word \notin Reach(nodes)
    /\ stored # <<>>

\* C18: the paths that have a node are exactly the prefixes of the stored
\* words (the empty one included), and node_count is their number; so the
\* stored words alone fix the tree shape and node_count.
C18_CanonicalShape ==
    /\ Reach(nodes) = StoredPrefixes
    /\ DOMAIN nodes = StoredPrefixes
    /\ count_nodes = Cardinality(StoredPrefixes)

C18_Witness ==
    /\ ret.op = "remove" /\ ret.result = TRUE
    /\ DOMAIN stored = {<<2>>}
    /\ Len(ret.word) = 2

\* C19: the height stats() reports is the length of the longest stored word
\* (0 when none or only the empty word is stored), also right after the
\* longest word is removed.
C19_HeightIsLongest ==
    /\ stats(nodes, count_words, count_nodes)[2] = LongestStored
    /\ ret.op = "stats" => ret.result[2] = LongestStored

C19_Witness ==
    /\ ret.op = "remove" /\ ret.result = TRUE /\ Len(ret.word) = 2
    /\ DOMAIN stored = {<<1>>}
    /\ stats(nodes, count_words, count_nodes)[2] = 1

\* ------------------------------------------------------ claims on the session
\* The tokens each command takes, the verb included.
Arity ==
    [load |-> 2, save |-> 2, insert |-> 3, remove |-> 2, contains |-> 2,
     complete |-> 3, stats |-> 1, quit |-> 1]

\* An unknown verb, or a known verb with the wrong number of tokens.
Malformed(parts) ==
    /\ parts # <<>>
    /\ \/ LowerVerb(parts[1]) \notin DOMAIN Arity
       \/ Len(parts) # Arity[LowerVerb(parts[1])]

\* The last line was a load or save of a path that cannot be opened.
FailedFileCommand ==
    /\ Len(line) = 2
    /\ line[1] \in {"load", "save"}
    /\ OpenResult(line[2]) # "ok"

\* The file's rows that are not blank, by position, and what each says.
NonBlank == {i \in 1..Len(files) : files[i] # <<>>}
WordAt(i) == lower(strip(files[i][1]))
ScoreAt(i) ==
    IF Len(files[i]) > 1 /\ ParseFloat(files[i][2]).ok
    THEN ParseFloat(files[i][2]).val
    ELSE 0

\* C13: a malformed line (unknown verb, or any of the eight verbs with the
\* wrong number of tokens) prints nothing, leaves the trie unchanged, and the
\* loop goes on.
C13_MalformedIgnored ==
    [][Malformed(line') =>
            /\ out' = <<>>
            /\ err' = <<>>
            /\ nodes' = nodes
            /\ count_words' = count_words
            /\ count_nodes' = count_nodes
            /\ running']_vars

\* C14: a load or save that fails on the file writes a message naming the
\* path to standard error, nothing to standard output, and the loop goes on.
C14_FileErrorToStderr ==
    FailedFileCommand =>
        /\ \E i \in 1..Len(err) : err[i].data = line[2]
        /\ out = <<>>
        /\ running

\* C15: after a successful load the stored words are exactly the trimmed,
\* lowercased first fields of the file's non-blank rows, each with the score
\* of its last row (0 when that score is missing or unparsable); nothing else
\* of the old trie remains.
C15_LoadReplaces ==
    (Len(line) = 2 /\ line[1] = "load" /\ OpenResult(line[2]) = "ok") =>
        /\ Terminals(nodes) = {WordAt(i) : i \in NonBlank}
        /\ count_words = Cardinality({WordAt(i) : i \in NonBlank})
        /\ \A i \in NonBlank :
              (\A j \in NonBlank : j > i => WordAt(j) # WordAt(i)) =>
                  nodes[WordAt(i)].score = ScoreAt(i)
        /\ \A w \in Terminals(nodes) : contains(nodes, w)

C15_Witness ==
    /\ line = <<"load", "f.csv">>
    /\ ret.pre
    /\ files = <<<<<<1>>, "1">>, <<<<0, 11, 0>>>>>>
    /\ Terminals(nodes) = {<<1>>}
    /\ nodes[<<1>>].score = 0

\* C20: a load of a file that cannot be found or opened leaves the session
\* with a new empty trie (stats gives words 0, height 0, nodes 1), and the
\* loop goes on.
C20_FailedLoadEmpties ==
    (Len(line) = 2 /\ line[1] = "load" /\ OpenResult(line[2]) # "ok") =>
        /\ nodes = [p \in {root} |-> NewNode]
        /\ count_words = 0
        /\ count_nodes = 1
        /\ stats(nodes, count_words, count_nodes) = <<0, 0, 1>>
        /\ running

C20_Witness ==
    /\ line = <<"load", "nodir/w.csv">>
    /\ ret.pre
    /\ count_words = 0 /\ count_nodes = 1
    /\ running

====
